---- MODULE Spec2Model ----
(***************************************************************************)
(* A model of the SQL Server chat assistant (db_methods.py, app.py) and of *)
(* the document ingestion (rag_methods.py).                                *)
(*                                                                         *)
(* Texts (model outputs, SQL statements, chat contents) are sequences of   *)
(* atoms.  An atom is one character (backtick, line feed, carriage return, *)
(* space) or one indivisible word ("sql", "SQL", "tsql", "X", message      *)
(* names): no operation of the program cuts inside a word, so find, rfind, *)
(* slicing, strip, splitlines, lower and join act on atoms exactly as the  *)
(* Python operations act on the characters.                                *)
(***************************************************************************)
EXTENDS Integers, Sequences, FiniteSets, TLC

\* ------------------------------------------------------------------ bounds

\* Longest model output enumerated atom by atom in a chat turn.
MaxRawLen == 3

\* Longest content of a fenced block enumerated atom by atom.
MaxBody == 5

\* Result sets hold up to max_rows_for_llm + MaxExtraRows rows.
MaxExtraRows == 2

\* Uploads (calls of load_db_generic with a file) and chat turns in one session.
MaxOps == 3

\* Files in one upload of documents.
MaxBatch == 2

\* Other sessions that build a vector index.
MaxOtherLoads == 3

\* ------------------------------------------------------- program constants

\* db_methods.py:346
max_rows_for_llm == 50

\* rag_methods.py:22
DB_DOCS_LIMIT == 10

\* rag_methods.py:145, the collections kept.
MAX_COLLECTIONS == 20

\* rag_methods.py:138, the characters of str(time()) kept in a name.
NAME_DIGITS == 14

\* --------------------------------------------------------------- the atoms

\* One backtick, "\n", "\r" and " ", by name.
BT == "BT"
LF == "LF"
CR == "CR"
SP == "SP"

\* What str.strip() removes at both ends, among the atoms.
Whitespace == {SP, LF, CR}

\* Where str.splitlines() breaks a line, among the atoms.
LineBreaks == {LF, CR}

Words == {"sql", "SQL", "tsql", "X"}

Alphabet == {BT} \cup Whitespace \cup Words

\* All texts over S of length at most n.
SeqsUpTo(S, n) == UNION {[1..k -> S] : k \in 0..n}

\* ---------------------------------------------- string operations of Python

\* s[a:b] for 0 <= a and 0 <= b (empty when a >= b).
Slice(s, a, b) == SubSeq(s, a + 1, IF b > Len(s) THEN Len(s) ELSE b)

\* The 0-based places where the marker (three backticks) starts in s.
MarkerPlaces(s) ==
    {i \in 0..(Len(s) - 3) : s[i + 1] = BT /\ s[i + 2] = BT /\ s[i + 3] = BT}

Min(S) == CHOOSE x \in S : \A y \in S : x <= y

Max(S) == CHOOSE x \in S : \A y \in S : x >= y

\* marker in s
HasMarker(s) == MarkerPlaces(s) # {}

\* s.find(marker)
Find(s) == IF HasMarker(s) THEN Min(MarkerPlaces(s)) ELSE -1

\* s.rfind(marker)
RFind(s) == IF HasMarker(s) THEN Max(MarkerPlaces(s)) ELSE -1

RECURSIVE LStrip(_)
LStrip(s) ==
    IF s # <<>> /\ Head(s) \in Whitespace THEN LStrip(Tail(s)) ELSE s

RECURSIVE RStrip(_)
RStrip(s) ==
    IF s # <<>> /\ s[Len(s)] \in Whitespace
    THEN RStrip(SubSeq(s, 1, Len(s) - 1))
    ELSE s

\* s.strip()
Strip(s) == RStrip(LStrip(s))

\* s.lower(), atom by atom.
LowerAtom(c) == IF c = "SQL" THEN "sql" ELSE c

Lower(s) == [i \in 1..Len(s) |-> LowerAtom(s[i])]

\* The place of the first line break of s, 0 when it has none.
FirstBreak(s) ==
    IF \E i \in 1..Len(s) : s[i] \in LineBreaks
    THEN Min({i \in 1..Len(s) : s[i] \in LineBreaks})
    ELSE 0

\* The length of the line break at place k of s: "\r\n" is one break.
BreakLen(s, k) ==
    IF s[k] = CR /\ k < Len(s) /\ s[k + 1] = LF THEN 2 ELSE 1

\* s.splitlines(): the lines without their breaks; a final break opens no
\* further line.
RECURSIVE SplitLines(_)
SplitLines(s) ==
    IF s = <<>> THEN <<>>
    ELSE LET k == FirstBreak(s) IN
         IF k = 0 THEN <<s>>
         ELSE <<SubSeq(s, 1, k - 1)>>
              \o SplitLines(SubSeq(s, k + BreakLen(s, k), Len(s)))

\* "\n".join(lines)
RECURSIVE JoinLines(_)
JoinLines(lines) ==
    IF lines = <<>> THEN <<>>
    ELSE IF Len(lines) = 1 THEN lines[1]
    ELSE lines[1] \o <<LF>> \o JoinLines(Tail(lines))

\* ------------------------------------ stream_db_response: 1.2, extraction

\* The language tags whose line is dropped.
LanguageTags == {<<"sql">>, <<"tsql">>}

\* raw[first:last].strip() with a marker, raw.strip() without one.
FencedPart(raw) ==
    IF HasMarker(raw)
    THEN Strip(Slice(raw, Find(raw) + 3, RFind(raw)))
    ELSE Strip(raw)

\* FirstLineIsTag without lower().
FirstLineIsTagCaseSensitive(sql) ==
    LET lines == SplitLines(sql) IN
    lines # <<>> /\ Strip(lines[1]) \in LanguageTags

\* Whether the first line, stripped and lowered, is a language tag.
FirstLineIsTag(sql) ==
    LET lines == SplitLines(sql) IN
    lines # <<>> /\ Lower(Strip(lines[1])) \in LanguageTags

\* "\n".join(lines[1:]).strip()
DropFirstLine(sql) == Strip(JoinLines(Tail(SplitLines(sql))))

\* The statement the turn goes on with.
ExtractSql(raw) ==
    LET sql == FencedPart(raw) IN
    IF sql # <<>> /\ FirstLineIsTag(sql) THEN DropFirstLine(sql) ELSE sql

\* ------------------------------------------------------------------ state

VARIABLES
    \* st.session_state
    messages,         \* the turn history: records [role, content]
    current_db_name,  \* 0: the key is absent; n > 0: "userdb_<n-th unique id>"
    db_loaded,        \* "absent", "true" or "false"
    db_file,          \* the name of the file in the uploader, <<>> for none
    \* the file system and the database server
    bak_dir,          \* the unique ids of the files written to BAK_DIR
    server_dbs,       \* the databases restored on the server
    with_tables,      \* those of them whose catalog lists a base table
    open_conns,       \* connections opened and not closed
    unique_ids,       \* unique ids drawn so far by load_db_generic
    uploads,          \* calls of load_db_generic with a file so far
    ui,               \* what the last callback showed: <<"none">>, <<"toast", ..>>
                      \* or <<"error", which message, the exception>>
    \* one call of stream_db_response
    pc,               \* where the call stands
    history_messages, \* its argument
    schema_text,
    user_question,
    raw,              \* the content of the SQL generation response
    sql,
    columns,
    rows,             \* the result of run_sql_query
    result_payload,   \* the payload sent to the explanation call
    reason,           \* the reason passed to fallback_normal_answer
    response,         \* what the generator yielded
    outcome,          \* "none", "yielded" or "raised"
    log,              \* the model and database calls of the call, in order
    failures,         \* the steps of the call that failed, in order
    turns,            \* calls of stream_db_response so far
    \* document ingestion (rag_methods.py)
    rag_sources,      \* st.session_state.rag_sources: the names and URLs loaded
    vector_db,        \* st.session_state.vector_db: [exists, docs], docs the
                      \* number of documents split and added to the index
    rag_ui,           \* the messages the last ingestion callback showed
    rag_offered,      \* the number of sources handed to that callback that the
                      \* list did not hold when it began
    \* the vector index of the process (initialize_vector_db)
    collections,      \* the names of the live collections
    clock,            \* the last reading of time()
    last_created,     \* the collection the last call created, <<>> for none
    last_evicted,     \* the collections the last call deleted, in order
    other_loads       \* calls of initialize_vector_db by other sessions so far

sessionVars == <<messages, current_db_name, db_loaded>>

envVars == <<db_file, bak_dir, server_dbs, with_tables, open_conns, unique_ids,
             uploads, ui>>

localVars == <<history_messages, schema_text, user_question, raw, sql, columns,
               rows, result_payload, reason, response, outcome, log, failures>>

turnVars == <<pc, localVars, turns>>

indexVars == <<collections, clock, last_created, last_evicted, other_loads>>

ragVars == <<rag_sources, vector_db, rag_ui, rag_offered, indexVars>>

vars == <<sessionVars, envVars, turnVars, ragVars>>

\* ------------------------------------------------------------- fixed texts

\* db_methods.py:230
MSG_NO_DB == <<"MSG_NO_DB">>

\* db_methods.py:237
MSG_EMPTY_DB == <<"MSG_EMPTY_DB">>

\* db_methods.py:251
MSG_NO_QUESTION == <<"MSG_NO_QUESTION">>

\* db_methods.py:273 and 378
DEFAULT_ANSWER == <<"DEFAULT_ANSWER">>

NoText == <<>>

NoPayload == [question |-> NoText, sql |-> NoText, columns |-> <<>>,
              rows_sample |-> <<>>, total_rows |-> 0]

\* ------------------------------------------------------------ has_db, Init

\* has_db(): the key is present and its value is a non-empty name.
has_db == current_db_name # 0

LocalsCleared ==
    /\ history_messages = <<>>
    /\ schema_text = NoText
    /\ user_question = NoText
    /\ raw = NoText
    /\ sql = NoText
    /\ columns = <<>>
    /\ rows = <<>>
    /\ result_payload = NoPayload
    /\ reason = NoText
    /\ response = NoText
    /\ outcome = "none"
    /\ log = <<>>
    /\ failures = <<>>

\* No vector index yet: the key vector_db is absent (rag_methods.py:159).
NoVectorDb == [exists |-> FALSE, docs |-> 0]

\* A session before any ingestion: an empty source list, no vector index.
InitRag ==
    /\ rag_sources = <<>>
    /\ vector_db = NoVectorDb
    /\ rag_ui = {}
    /\ rag_offered = 0

\* The process has started: no collection, no call of initialize_vector_db.
StartClock == [sec |-> 0, frac |-> <<0, 0, 0, 0>>, more |-> FALSE]

NoName == <<>>

InitIndex ==
    /\ collections = {}
    /\ clock = StartClock
    /\ last_created = NoName
    /\ last_evicted = <<>>
    /\ other_loads = 0

\* A new session: app.py creates the empty turn history; nothing is uploaded.
InitApp ==
    /\ messages = <<>>
    /\ current_db_name = 0
    /\ db_loaded = "absent"
    /\ db_file = NoText
    /\ bak_dir = {}
    /\ server_dbs = {}
    /\ with_tables = {}
    /\ open_conns = 0
    /\ unique_ids = 0
    /\ uploads = 0
    /\ ui = <<"none">>
    /\ pc = "idle"
    /\ LocalsCleared
    /\ turns = 0

\* A new session in a new process.
Init == InitApp /\ InitRag /\ InitIndex

\* ---------------------------------------------------------- the uploads

\* File names: a stem and what follows it.
FileNames == {<<"X", ".bak">>, <<"X", ".BAK">>, <<"X", ".txt">>, <<".bak", "X">>, <<"X">>}

LowerName(name) ==
    [i \in 1..Len(name) |-> IF name[i] = ".BAK" THEN ".bak" ELSE name[i]]

\* filename.lower().endswith(".bak")
EndsWithBak(filename) ==
    LET low == LowerName(filename) IN low # <<>> /\ low[Len(low)] = ".bak"

\* How restore_database_from_bak ends: the connection fails, the manifest query
\* fails, the manifest lists fewer than two files, the restore statement fails,
\* or the database is restored (with or without base tables in it).
RestoreOutcomes ==
    {"connect_error", "filelist_error", "short_manifest", "restore_error",
     "restored", "restored_empty"}

RestoreSucceeds(o) == o \in {"restored", "restored_empty"}

\* Connections restore_database_from_bak leaves open: conn.close() is reached on
\* the short manifest and on success only.
RestoreLeak(o) == IF o \in {"filelist_error", "restore_error"} THEN 1 ELSE 0

\* The uploader is emptied: load_db_generic finds no file and returns.
LoadDbNoFile ==
    /\ pc = "idle"
    /\ db_file' = NoText
    /\ UNCHANGED <<sessionVars, bak_dir, server_dbs, with_tables, open_conns,
                   unique_ids, uploads, ui, turnVars>>
    /\ UNCHANGED ragVars

\* LoadDbUnsupported dropping the current database as well.
LoadDbUnsupportedDropsDb(filename) ==
    /\ pc = "idle"
    /\ uploads + turns < MaxOps
    /\ ~EndsWithBak(filename)
    /\ db_file' = filename
    /\ db_loaded' = "false"
    /\ current_db_name' = 0
    /\ ui' = <<"error", "unsupported file type">>
    /\ uploads' = uploads + 1
    /\ UNCHANGED <<messages, bak_dir, server_dbs, with_tables, open_conns,
                   unique_ids, turnVars>>
    /\ UNCHANGED ragVars

\* load_db_generic, unsupported extension.
LoadDbUnsupported(filename) ==
    /\ pc = "idle"
    /\ uploads + turns < MaxOps
    /\ ~EndsWithBak(filename)
    /\ db_file' = filename
    /\ db_loaded' = "false"
    /\ ui' = <<"error", "unsupported file type">>
    /\ uploads' = uploads + 1
    /\ UNCHANGED <<messages, current_db_name, bak_dir, server_dbs, with_tables,
                   open_conns, unique_ids, turnVars>>
    /\ UNCHANGED ragVars

\* LoadDbWriteFails with the current database unset by the except branch.
LoadDbWriteFailsUnsetsDb(filename, created) ==
    /\ pc = "idle"
    /\ uploads + turns < MaxOps
    /\ EndsWithBak(filename)
    /\ db_file' = filename
    /\ unique_ids' = unique_ids + 1
    /\ bak_dir' = IF created THEN bak_dir \cup {unique_ids'} ELSE bak_dir
    /\ db_loaded' = "false"
    /\ current_db_name' = 0
    /\ ui' = <<"error", "restoring", "write_error">>
    /\ uploads' = uploads + 1
    /\ UNCHANGED <<messages, server_dbs, with_tables,
                   open_conns, turnVars>>
    /\ UNCHANGED ragVars

\* load_db_generic, writing the file to BAK_DIR fails: at open() (no file is
\* created) or at write() (a file is left behind).
LoadDbWriteFails(filename, created) ==
    /\ pc = "idle"
    /\ uploads + turns < MaxOps
    /\ EndsWithBak(filename)
    /\ db_file' = filename
    /\ unique_ids' = unique_ids + 1
    /\ bak_dir' = IF created THEN bak_dir \cup {unique_ids'} ELSE bak_dir
    /\ db_loaded' = "false"
    /\ ui' = <<"error", "restoring", "write_error">>
    /\ uploads' = uploads + 1
    /\ UNCHANGED <<messages, current_db_name, server_dbs, with_tables,
                   open_conns, turnVars>>
    /\ UNCHANGED ragVars

\* LoadDbRestore unsetting the current database when the restore fails.
LoadDbRestoreUnsetsDb(filename, o) ==
    /\ pc = "idle"
    /\ uploads + turns < MaxOps
    /\ EndsWithBak(filename)
    /\ db_file' = filename
    /\ unique_ids' = unique_ids + 1
    /\ bak_dir' = bak_dir \cup {unique_ids'}
    /\ open_conns' = open_conns + RestoreLeak(o)
    /\ uploads' = uploads + 1
    /\ IF RestoreSucceeds(o)
       THEN /\ server_dbs' = server_dbs \cup {unique_ids'}
            /\ with_tables' = IF o = "restored"
                              THEN with_tables \cup {unique_ids'}
                              ELSE with_tables
            /\ current_db_name' = unique_ids'
            /\ db_loaded' = "true"
            /\ ui' = <<"toast", "restored">>
       ELSE /\ db_loaded' = "false"
            /\ current_db_name' = 0
            /\ ui' = <<"error", "restoring", o>>
            /\ UNCHANGED <<server_dbs, with_tables>>
    /\ UNCHANGED <<messages, turnVars>>
    /\ UNCHANGED ragVars

\* load_db_generic, the file is written and the restore is attempted.
LoadDbRestore(filename, o) ==
    /\ pc = "idle"
    /\ uploads + turns < MaxOps
    /\ EndsWithBak(filename)
    /\ db_file' = filename
    /\ unique_ids' = unique_ids + 1
    /\ bak_dir' = bak_dir \cup {unique_ids'}
    /\ open_conns' = open_conns + RestoreLeak(o)
    /\ uploads' = uploads + 1
    /\ IF RestoreSucceeds(o)
       THEN /\ server_dbs' = server_dbs \cup {unique_ids'}
            /\ with_tables' = IF o = "restored"
                              THEN with_tables \cup {unique_ids'}
                              ELSE with_tables
            /\ current_db_name' = unique_ids'
            /\ db_loaded' = "true"
            /\ ui' = <<"toast", "restored">>
       ELSE /\ db_loaded' = "false"
            /\ ui' = <<"error", "restoring", o>>
            /\ UNCHANGED <<server_dbs, with_tables, current_db_name>>
    /\ UNCHANGED <<messages, turnVars>>
    /\ UNCHANGED ragVars

\* load_db_generic, the callback of the uploader.
load_db_generic ==
    \/ LoadDbNoFile
    \/ \E filename \in FileNames :
         \/ LoadDbUnsupported(filename)
         \/ \E created \in BOOLEAN : LoadDbWriteFails(filename, created)
         \/ \E o \in RestoreOutcomes : LoadDbRestore(filename, o)

\* ------------------------------------------------- the calls a turn makes

\* The contents a model response can carry besides the SQL generation output.
LlmReplies == {NoText, <<"ANSWER">>}

\* response.content or <default>
ContentOr(content, default) == IF content # NoText THEN content ELSE default

\* How get_schema_summary ends for the current database.
SchemaOutcomes == {"connect_error", "tables_error", "columns_error", "done"}

\* Connections get_schema_summary leaves open: its finally closes the one it opened.
SchemaLeak(o) == 0

\* get_schema_summary without the test for an empty table list: the joined
\* lines of no table are the empty text.
get_schema_summary_join_only(o) ==
    IF o = "connect_error"
    THEN [raised |-> TRUE, text |-> NoText, calls |-> <<"connect">>]
    ELSE IF o = "tables_error"
    THEN [raised |-> TRUE, text |-> NoText,
          calls |-> <<"connect", "catalog", "close">>]
    ELSE IF current_db_name \notin with_tables
    THEN [raised |-> FALSE, text |-> NoText,
          calls |-> <<"connect", "catalog", "close">>]
    ELSE IF o = "columns_error"
    THEN [raised |-> TRUE, text |-> NoText,
          calls |-> <<"connect", "catalog", "catalog", "close">>]
    ELSE [raised |-> FALSE, text |-> <<"SCHEMA">>,
          calls |-> <<"connect", "catalog", "catalog", "close">>]

\* get_schema_summary() with a database current: what it returns or that it
\* raises, and the database calls it makes.
get_schema_summary(o) ==
    IF o = "connect_error"
    THEN [raised |-> TRUE, text |-> NoText, calls |-> <<"connect">>]
    ELSE IF o = "tables_error"
    THEN [raised |-> TRUE, text |-> NoText,
          calls |-> <<"connect", "catalog", "close">>]
    ELSE IF current_db_name \notin with_tables
    THEN [raised |-> FALSE, text |-> <<"NO_TABLES">>,
          calls |-> <<"connect", "catalog", "close">>]
    ELSE IF o = "columns_error"
    THEN [raised |-> TRUE, text |-> NoText,
          calls |-> <<"connect", "catalog", "catalog", "close">>]
    ELSE [raised |-> FALSE, text |-> <<"SCHEMA">>,
          calls |-> <<"connect", "catalog", "catalog", "close">>]

\* The sizes of the result sets a statement returns.
ResultSizes ==
    {0, 1} \cup ((max_rows_for_llm - 1)..(max_rows_for_llm + MaxExtraRows))

\* The normalized rows of a result set of n rows, in result order.
RowsOf(n) == [i \in 1..n |-> <<i>>]

\* How run_sql_query ends: <<how, size of the result set>>.
QueryOutcomes ==
    {<<"connect_error", 0>>, <<"execute_error", 0>>}
        \cup {<<"done", n>> : n \in ResultSizes}

\* Connections run_sql_query leaves open: its finally closes the one it opened.
QueryLeak(o) == 0

\* run_sql_query(sql) with a database current.
run_sql_query(o) ==
    IF o[1] = "connect_error"
    THEN [raised |-> TRUE, columns |-> <<>>, rows |-> <<>>, calls |-> <<"connect">>]
    ELSE IF o[1] = "execute_error"
    THEN [raised |-> TRUE, columns |-> <<>>, rows |-> <<>>,
          calls |-> <<"connect", "execute", "close">>]
    ELSE [raised |-> FALSE, columns |-> <<"c1">>, rows |-> RowsOf(o[2]),
          calls |-> <<"connect", "execute", "close">>]

\* --------------------------------------------------- stream_db_response

Questions == {<<"Q">>}

UserEntry(content) == [role |-> "user", content |-> content]

AssistantEntry(content) == [role |-> "assistant", content |-> content]

\* What a caller other than app.py may pass: nothing, an empty last message, a
\* question.
DirectHistories == {<<>>, <<UserEntry(NoText)>>} \cup {<<UserEntry(q)>> : q \in Questions}

\* The generator appends msg to the turn history, yields it and returns.
YieldAndReturn(msg) ==
    /\ messages' = Append(messages, AssistantEntry(msg))
    /\ response' = msg
    /\ outcome' = "yielded"
    /\ pc' = "returned"

\* An exception leaves the generator.
RaiseOut ==
    /\ outcome' = "raised"
    /\ pc' = "returned"
    /\ UNCHANGED <<messages, response>>

\* app.py: a prompt is entered; it is appended to the turn history and the
\* whole history is handed to stream_db_response.  The chat input exists only
\* while has_db().
AppChat(prompt) ==
    /\ pc = "idle"
    /\ uploads + turns < MaxOps
    /\ has_db
    /\ messages' = Append(messages, UserEntry(prompt))
    /\ history_messages' = messages'
    /\ pc' = "start"
    /\ turns' = turns + 1
    /\ UNCHANGED <<current_db_name, db_loaded, envVars, schema_text,
                   user_question, raw, sql, columns, rows, result_payload,
                   reason, response, outcome, log, failures>>
    /\ UNCHANGED ragVars

\* stream_db_response(llm, h) called by another caller.
DirectCall(h) ==
    /\ pc = "idle"
    /\ uploads + turns < MaxOps
    /\ history_messages' = h
    /\ pc' = "start"
    /\ turns' = turns + 1
    /\ UNCHANGED <<sessionVars, envVars, schema_text, user_question, raw, sql,
                   columns, rows, result_payload, reason, response, outcome,
                   log, failures>>
    /\ UNCHANGED ragVars

\* CheckDb without the has_db() test.
CheckDbSkipped ==
    /\ pc = "start"
    /\ pc' = "schema"
    /\ UNCHANGED <<sessionVars, envVars, localVars, turns>>
    /\ UNCHANGED ragVars

\* 0. no database: the fixed message.
CheckDb ==
    /\ pc = "start"
    /\ IF ~has_db
       THEN YieldAndReturn(MSG_NO_DB)
       ELSE /\ pc' = "schema"
            /\ UNCHANGED <<messages, response, outcome>>
    /\ UNCHANGED <<current_db_name, db_loaded, envVars, history_messages,
                   schema_text, user_question, raw, sql, columns, rows,
                   result_payload, reason, log, failures, turns>>
    /\ UNCHANGED ragVars

\* history_messages[-1].content, None without messages.
LastQuestion(h) == IF h = <<>> THEN NoText ELSE h[Len(h)].content

\* The sentinels of get_schema_summary the turn stops on.
Sentinels == {<<"NO_DB">>, <<"NO_TABLES">>}

\* The schema summary, the sentinel check and the question check.
SchemaStep(o) ==
    /\ pc = "schema"
    /\ LET s == get_schema_summary(o) IN
       /\ log' = log \o s.calls
       /\ open_conns' = open_conns + SchemaLeak(o)
       /\ IF s.raised
          THEN /\ RaiseOut
               /\ failures' = Append(failures, "schema")
               /\ UNCHANGED <<schema_text, user_question>>
          ELSE /\ schema_text' = s.text
               /\ UNCHANGED failures
               /\ IF s.text \in Sentinels
                  THEN /\ YieldAndReturn(MSG_EMPTY_DB)
                       /\ UNCHANGED user_question
                  ELSE /\ user_question' = LastQuestion(history_messages)
                       /\ IF user_question' = NoText
                          THEN YieldAndReturn(MSG_NO_QUESTION)
                          ELSE /\ pc' = "generate"
                               /\ UNCHANGED <<messages, response, outcome>>
    /\ UNCHANGED <<current_db_name, db_loaded, db_file, bak_dir, server_dbs,
                   with_tables, unique_ids, uploads, ui, history_messages, raw, sql, columns,
                   rows, result_payload, reason, turns>>
    /\ UNCHANGED ragVars

\* 1.1 the SQL generation call raises: fallback.
GenerateSqlRaises ==
    /\ pc = "generate"
    /\ log' = Append(log, "llm_generate")
    /\ failures' = Append(failures, "generate")
    /\ reason' = <<"LLM SQL generation error">>
    /\ pc' = "fallback"
    /\ UNCHANGED <<sessionVars, envVars, history_messages, schema_text,
                   user_question, raw, sql, columns, rows, result_payload,
                   response, outcome, turns>>
    /\ UNCHANGED ragVars

\* 1.1 the SQL generation call returns content r.
GenerateSql(r) ==
    /\ pc = "generate"
    /\ log' = Append(log, "llm_generate")
    /\ raw' = r
    /\ pc' = "extract"
    /\ UNCHANGED <<sessionVars, envVars, history_messages, schema_text,
                   user_question, sql, columns, rows, result_payload, reason,
                   response, outcome, failures, turns>>
    /\ UNCHANGED ragVars

\* Extract without the test for an empty statement.
ExtractNoEmptyTest ==
    /\ pc = "extract"
    /\ sql' = ExtractSql(raw)
    /\ pc' = "execute"
    /\ UNCHANGED <<sessionVars, envVars, history_messages, schema_text,
                   user_question, raw, columns, rows, result_payload, reason,
                   response, outcome, log, failures, turns>>
    /\ UNCHANGED ragVars

\* 1.2 extraction; no statement: fallback.
Extract ==
    /\ pc = "extract"
    /\ sql' = ExtractSql(raw)
    /\ IF sql' = NoText
       THEN /\ reason' = <<"No SQL extracted">>
            /\ failures' = Append(failures, "extract")
            /\ pc' = "fallback"
       ELSE /\ pc' = "execute"
            /\ UNCHANGED <<reason, failures>>
    /\ UNCHANGED <<sessionVars, envVars, history_messages, schema_text,
                   user_question, raw, columns, rows, result_payload, response,
                   outcome, log, turns>>
    /\ UNCHANGED ragVars

\* 1.3 execution; an exception: fallback.
Execute(o) ==
    /\ pc = "execute"
    /\ LET q == run_sql_query(o) IN
       /\ log' = log \o q.calls
       /\ open_conns' = open_conns + QueryLeak(o)
       /\ IF q.raised
          THEN /\ reason' = <<"SQL execution failed">>
               /\ failures' = Append(failures, "execute")
               /\ pc' = "fallback"
               /\ UNCHANGED <<columns, rows>>
          ELSE /\ columns' = q.columns
               /\ rows' = q.rows
               /\ pc' = "explain"
               /\ UNCHANGED <<reason, failures>>
    /\ UNCHANGED <<sessionVars, db_file, bak_dir, server_dbs, with_tables,
                   unique_ids, uploads, ui, history_messages, schema_text, user_question,
                   raw, sql, result_payload, response, outcome, turns>>
    /\ UNCHANGED ragVars

\* rows[:max_rows_for_llm]
SampleRows(rs) == Slice(rs, 0, max_rows_for_llm)

\* The payload with the size of the sample as its total.
BuildPayloadSampleTotal ==
    [question |-> user_question, sql |-> sql, columns |-> columns,
     rows_sample |-> SampleRows(rows), total_rows |-> Len(SampleRows(rows))]

\* The payload of the explanation call.
BuildPayload ==
    [question |-> user_question, sql |-> sql, columns |-> columns,
     rows_sample |-> SampleRows(rows), total_rows |-> Len(rows)]

\* ExplainRaises with the exception caught and the fallback taken.
ExplainRaisesFallsBack ==
    /\ pc = "explain"
    /\ result_payload' = BuildPayload
    /\ log' = Append(log, "llm_explain")
    /\ failures' = Append(failures, "explain")
    /\ reason' = <<"Explanation failed">>
    /\ pc' = "fallback"
    /\ UNCHANGED <<sessionVars, envVars, history_messages, schema_text,
                   user_question, raw, sql, columns, rows, response, outcome,
                   turns>>
    /\ UNCHANGED ragVars

\* 2. the explanation call raises: nothing catches it.
ExplainRaises ==
    /\ pc = "explain"
    /\ result_payload' = BuildPayload
    /\ log' = Append(log, "llm_explain")
    /\ failures' = Append(failures, "explain")
    /\ RaiseOut
    /\ UNCHANGED <<current_db_name, db_loaded, envVars, history_messages,
                   schema_text, user_question, raw, sql, columns, rows, reason,
                   turns>>
    /\ UNCHANGED ragVars

\* 2. the explanation call returns content c.
Explain(c) ==
    /\ pc = "explain"
    /\ result_payload' = BuildPayload
    /\ log' = Append(log, "llm_explain")
    /\ YieldAndReturn(ContentOr(c, DEFAULT_ANSWER))
    /\ UNCHANGED <<current_db_name, db_loaded, envVars, history_messages,
                   schema_text, user_question, raw, sql, columns, rows, reason,
                   failures, turns>>
    /\ UNCHANGED ragVars

\* FallbackRaises with the exception caught and the default answer returned.
FallbackRaisesCaught ==
    /\ pc = "fallback"
    /\ log' = Append(log, "llm_fallback")
    /\ failures' = Append(failures, "fallback")
    /\ YieldAndReturn(DEFAULT_ANSWER)
    /\ UNCHANGED <<current_db_name, db_loaded, envVars, history_messages,
                   schema_text, user_question, raw, sql, columns, rows,
                   result_payload, reason, turns>>
    /\ UNCHANGED ragVars

\* fallback_normal_answer: its model call raises.
FallbackRaises ==
    /\ pc = "fallback"
    /\ log' = Append(log, "llm_fallback")
    /\ failures' = Append(failures, "fallback")
    /\ RaiseOut
    /\ UNCHANGED <<current_db_name, db_loaded, envVars, history_messages,
                   schema_text, user_question, raw, sql, columns, rows,
                   result_payload, reason, turns>>
    /\ UNCHANGED ragVars

\* Fallback without the append to the turn history.
FallbackNoAppend(c) ==
    /\ pc = "fallback"
    /\ log' = Append(log, "llm_fallback")
    /\ response' = ContentOr(c, DEFAULT_ANSWER)
    /\ outcome' = "yielded"
    /\ pc' = "returned"
    /\ UNCHANGED <<sessionVars, envVars, history_messages, schema_text,
                   user_question, raw, sql, columns, rows, result_payload,
                   reason, failures, turns>>
    /\ UNCHANGED ragVars

\* fallback_normal_answer: its model call returns content c.
Fallback(c) ==
    /\ pc = "fallback"
    /\ log' = Append(log, "llm_fallback")
    /\ YieldAndReturn(ContentOr(c, DEFAULT_ANSWER))
    /\ UNCHANGED <<current_db_name, db_loaded, envVars, history_messages,
                   schema_text, user_question, raw, sql, columns, rows,
                   result_payload, reason, failures, turns>>
    /\ UNCHANGED ragVars

\* The call is over: its locals are gone.
Finish ==
    /\ pc = "returned"
    /\ pc' = "idle"
    /\ history_messages' = <<>>
    /\ schema_text' = NoText
    /\ user_question' = NoText
    /\ raw' = NoText
    /\ sql' = NoText
    /\ columns' = <<>>
    /\ rows' = <<>>
    /\ result_payload' = NoPayload
    /\ reason' = NoText
    /\ response' = NoText
    /\ outcome' = "none"
    /\ log' = <<>>
    /\ failures' = <<>>
    /\ UNCHANGED <<sessionVars, envVars, turns>>
    /\ UNCHANGED ragVars

\* ------------------------------------------------- document ingestion

Range(s) == {s[i] : i \in 1..Len(s)}

\* A source is named <<kind, n>>.  Its kind tells how its loader ends for a
\* source the list does not hold: "ok" (documents come back), "empty" (an empty
\* list of documents comes back), "unsupported" (no loader for the type),
\* "corrupt" (the loader raises), "unwritable" (writing the upload to
\* ./source_files raises).
Kind(source) == source[1]

\* The documents the loader of a source returns.
Loaded(source) == IF Kind(source) = "ok" THEN 1 ELSE 0

\* The number of "ok" sources in the list.
OkCount(sources) == Cardinality({i \in 1..Len(sources) : Kind(sources[i]) = "ok"})

\* The messages of the ingestion callbacks.
WARN_UNSUPPORTED == "warning: document type not supported"
TOAST_LOAD_ERROR == "toast: error loading document"
ERROR_URL == "error: error loading document from url"
ERROR_LIMIT == "error: maximum number of documents reached"
TOAST_LOADED == "toast: loaded successfully"

\* ---- the collections of the vector index

\* str(time()) of these years: ten digits of seconds, a point, the digits of
\* the fraction.  The seconds are one atom, compared as a number.
SECONDS_DIGITS == 10

\* The places of the fraction a name can hold.
FracPlaces == NAME_DIGITS - SECONDS_DIGITS

\* The digit values of the fractions told apart.
FracDigits == {0, 2}

\* "_" sorts after every digit.
UNDERSCORE == 10

\* The session_id of the session modelled.
OWN_SESSION == 0

\* A reading of time(): the seconds, the first FracPlaces digits of the
\* fraction, and whether the fraction has non-zero digits after them.
Readings ==
    [sec : {1}, frac : [1..FracPlaces -> FracDigits], more : BOOLEAN]

\* a sorts before b: sorted() on strings, character by character, a proper
\* prefix first.
LexLess(a, b) ==
    \E i \in 1..(Len(b)) :
        /\ \A j \in 1..(i - 1) : j <= Len(a) /\ a[j] = b[j]
        /\ i > Len(a) \/ (i <= Len(a) /\ a[i] < b[i])

\* Reading t is later than reading c by a ten-thousandth of a second or more:
\* each call loads the embedding model before it reads the time.
Later(c, t) == c.sec < t.sec \/ (c.sec = t.sec /\ LexLess(c.frac, t.frac))

\* d without its trailing zeros; one digit is kept.
RECURSIVE StripZeros(_)
StripZeros(d) ==
    IF Len(d) > 1 /\ d[Len(d)] = 0
    THEN StripZeros(SubSeq(d, 1, Len(d) - 1))
    ELSE d

\* The digits of the fraction in str(t): the shortest that give t back.
StrFrac(t) == IF t.more THEN t.frac \o <<1>> ELSE StripZeros(t.frac)

\* str(time()).replace(".", "")[:14] + "_" + session_id
CollectionName(t, session_id) ==
    <<t.sec>> \o Slice(StrFrac(t), 0, FracPlaces) \o <<UNDERSCORE, session_id>>

\* sorted(names)
RECURSIVE Sorted(_)
Sorted(names) ==
    IF names = {} THEN <<>>
    ELSE LET first == CHOOSE n \in names :
                          \A m \in names \ {n} : LexLess(n, m)
         IN <<first>> \o Sorted(names \ {first})

\* EvictLoop deleting the last name of the sorted list.
RECURSIVE EvictLoopLast(_, _, _)
EvictLoopLast(collection_names, live, gone) ==
    IF Len(collection_names) > MAX_COLLECTIONS
    THEN EvictLoopLast(SubSeq(collection_names, 1, Len(collection_names) - 1),
                       live \ {collection_names[Len(collection_names)]},
                       Append(gone, collection_names[Len(collection_names)]))
    ELSE [collections |-> live, evicted |-> gone]

\* while len(collection_names) > 20: delete collection_names[0], pop it.
RECURSIVE EvictLoop(_, _, _)
EvictLoop(collection_names, live, gone) ==
    IF Len(collection_names) > MAX_COLLECTIONS
    THEN EvictLoop(Tail(collection_names),
                   live \ {Head(collection_names)},
                   Append(gone, Head(collection_names)))
    ELSE [collections |-> live, evicted |-> gone]

\* initialize_vector_db(docs) creating the collection name: the collections
\* left and the collections deleted.
initialize_vector_db(name) ==
    EvictLoop(Sorted(collections \cup {name}), collections \cup {name}, <<>>)

\* A call of initialize_vector_db by session_id that reads the time t.
InitializeAt(t, session_id) ==
    /\ Later(clock, t)
    /\ clock' = t
    /\ last_created' = CollectionName(t, session_id)
    /\ \E r \in {initialize_vector_db(CollectionName(t, session_id))} :
         /\ collections' = r.collections
         /\ last_evicted' = r.evicted

\* Another session loads its first documents.
OtherSessionLoads(t) ==
    /\ pc = "idle"
    /\ other_loads < MaxOtherLoads
    /\ other_loads' = other_loads + 1
    /\ InitializeAt(t, MAX_COLLECTIONS + other_loads')
    /\ UNCHANGED <<sessionVars, envVars, turnVars, rag_sources, vector_db,
                   rag_ui, rag_offered>>

\* The reading of the next instant told apart, its fraction longer than a
\* name holds (the usual reading).
SoonReadings ==
    {t \in Readings : /\ t.more
                      /\ Later(clock, t)
                      /\ \A u \in Readings : Later(clock, u) => ~Later(u, t)}

\* The index of the session after a call that ends as o with docs documents:
\* the first documents make initialize_vector_db build a collection.
IndexStep(indexing) ==
    IF indexing /\ ~vector_db.exists
    THEN /\ \E t \in SoonReadings : InitializeAt(t, OWN_SESSION)
         /\ UNCHANGED other_loads
    ELSE UNCHANGED indexVars

\* How _split_and_load_docs ends: the chunks are in the index, or the splitter,
\* the embedding or the index raised (initialize_vector_db stops the script
\* without its settings).
SplitOutcomes == {"done", "raised"}

\* _split_and_load_docs(docs): a new index of the chunks when the session has
\* none, the chunks added to its index otherwise.
split_and_load_docs(docs) ==
    IF ~vector_db.exists
    THEN [exists |-> TRUE, docs |-> docs]
    ELSE [vector_db EXCEPT !.docs = @ + docs]

\* LoadDocFile without the test of the limit.
LoadDocFileNoLimit(doc_file, acc) ==
    IF doc_file \in Range(acc.sources) THEN acc
    ELSE CASE Kind(doc_file) = "unwritable" -> [acc EXCEPT !.raised = TRUE]
           [] Kind(doc_file) = "unsupported" ->
                [acc EXCEPT !.ui = @ \cup {WARN_UNSUPPORTED}]
           [] Kind(doc_file) = "corrupt" ->
                [acc EXCEPT !.ui = @ \cup {TOAST_LOAD_ERROR}]
           [] OTHER ->
                [acc EXCEPT !.docs = @ + Loaded(doc_file),
                            !.sources = Append(@, doc_file)]

\* One round of the loop of load_doc_to_db; acc holds the source list, the
\* number of documents loaded so far, the messages shown and whether an
\* exception left the loop.
LoadDocFile(doc_file, acc) ==
    IF doc_file \in Range(acc.sources) THEN acc
    ELSE IF Len(acc.sources) < DB_DOCS_LIMIT
    THEN CASE Kind(doc_file) = "unwritable" -> [acc EXCEPT !.raised = TRUE]
           [] Kind(doc_file) = "unsupported" ->
                [acc EXCEPT !.ui = @ \cup {WARN_UNSUPPORTED}]
           [] Kind(doc_file) = "corrupt" ->
                [acc EXCEPT !.ui = @ \cup {TOAST_LOAD_ERROR}]
           [] OTHER ->
                [acc EXCEPT !.docs = @ + Loaded(doc_file),
                            !.sources = Append(@, doc_file)]
    ELSE [acc EXCEPT !.ui = @ \cup {ERROR_LIMIT}]

\* The loop of load_doc_to_db over the uploaded files.
RECURSIVE LoadDocFiles(_, _)
LoadDocFiles(rag_docs, acc) ==
    IF rag_docs = <<>> \/ acc.raised THEN acc
    ELSE LoadDocFiles(Tail(rag_docs), LoadDocFile(Head(rag_docs), acc))

\* load_doc_to_db(), the callback of the document uploader, with rag_docs in
\* the uploader (none: nothing is done).
load_doc_to_db(rag_docs, o) ==
    \E r \in {LoadDocFiles(rag_docs, [sources |-> rag_sources, docs |-> 0,
                                      ui |-> {}, raised |-> FALSE])} :
      \E split \in {~r.raised /\ r.docs > 0} :
        /\ pc = "idle"
        /\ ~split => o = "done"
        /\ rag_sources' = r.sources
        /\ vector_db' = IF split /\ o = "done"
                        THEN split_and_load_docs(r.docs)
                        ELSE vector_db
        /\ rag_ui' = IF split /\ o = "done"
                     THEN r.ui \cup {TOAST_LOADED}
                     ELSE r.ui
        /\ rag_offered' = Cardinality(Range(rag_docs) \ Range(rag_sources))
        /\ IndexStep(split /\ o = "done")
        /\ UNCHANGED <<sessionVars, envVars, turnVars>>

\* No URL in the text input.
NoUrl == <<>>

\* load_url_to_db(), the callback of the URL input, with url in the input.
load_url_to_db(url, o) ==
    LET fresh == url # NoUrl /\ url \notin Range(rag_sources)
        room == Len(rag_sources) < DB_DOCS_LIMIT
        loads == fresh /\ room /\ Kind(url) # "corrupt"
        split == loads /\ Loaded(url) > 0
    IN /\ pc = "idle"
       /\ ~split => o = "done"
       /\ rag_sources' = IF loads THEN Append(rag_sources, url) ELSE rag_sources
       /\ vector_db' = IF split /\ o = "done"
                       THEN split_and_load_docs(Loaded(url))
                       ELSE vector_db
       /\ rag_ui' = IF ~fresh THEN {}
                    ELSE IF ~room THEN {ERROR_LIMIT}
                    ELSE IF ~loads THEN {ERROR_URL}
                    ELSE IF split /\ o = "done" THEN {TOAST_LOADED}
                    ELSE {}
       /\ rag_offered' = IF fresh THEN 1 ELSE 0
       /\ IndexStep(split /\ o = "done")
       /\ UNCHANGED <<sessionVars, envVars, turnVars>>

\* ------------------------------------------------------ the specifications

Marker == <<BT, BT, BT>>

\* Model outputs of the usual shapes: no content, blank, a bare statement, a
\* bare statement under a tag line, a fenced statement with and without a tag,
\* an empty block, a block holding only a tag, an unclosed block.
RawSamples ==
    {NoText, <<SP>>, <<"X">>, <<"sql", LF, "X">>,
     Marker \o <<"sql", LF, "X", LF>> \o Marker,
     Marker \o <<"X">> \o Marker,
     Marker \o Marker,
     Marker \o <<"sql">> \o Marker,
     Marker \o <<"X">>}

\* One step of a call of stream_db_response whose model outputs come from R.
TurnStep(R) ==
    \/ CheckDb
    \/ \E o \in SchemaOutcomes : SchemaStep(o)
    \/ GenerateSqlRaises
    \/ pc = "generate" /\ \E r \in R : GenerateSql(r)
    \/ Extract
    \/ \E o \in QueryOutcomes : Execute(o)
    \/ ExplainRaises
    \/ \E c \in LlmReplies : Explain(c)
    \/ FallbackRaises
    \/ \E c \in LlmReplies : Fallback(c)
    \/ Finish

\* A session: uploads and chat turns.
Next ==
    \/ load_db_generic
    \/ \E prompt \in Questions : AppChat(prompt)
    \/ \E h \in DirectHistories : DirectCall(h)
    \/ TurnStep(RawSamples)

Spec == Init /\ [][Next]_vars

\* ---- the last chat turn of a session, over every short model output

\* The turn history after k answered turns.
RECURSIVE AnsweredTurns(_)
AnsweredTurns(k) ==
    IF k = 0 THEN <<>>
    ELSE AnsweredTurns(k - 1)
         \o <<UserEntry(<<"Q">>), AssistantEntry(<<"ANSWER">>)>>

\* One database with tables was restored, MaxOps - 2 turns were answered and
\* app.py has started the last turn the bound allows.
InitTurn ==
    /\ messages = AnsweredTurns(MaxOps - 2) \o <<UserEntry(<<"Q">>)>>
    /\ current_db_name = 1
    /\ db_loaded = "true"
    /\ db_file = <<"X", ".bak">>
    /\ bak_dir = {1}
    /\ server_dbs = {1}
    /\ with_tables = {1}
    /\ open_conns = 0
    /\ unique_ids = 1
    /\ uploads = 1
    /\ ui = <<"toast", "restored">>
    /\ pc = "start"
    /\ history_messages = messages
    /\ schema_text = NoText
    /\ user_question = NoText
    /\ raw = NoText
    /\ sql = NoText
    /\ columns = <<>>
    /\ rows = <<>>
    /\ result_payload = NoPayload
    /\ reason = NoText
    /\ response = NoText
    /\ outcome = "none"
    /\ log = <<>>
    /\ failures = <<>>
    /\ turns = MaxOps - 1
    /\ InitRag
    /\ InitIndex

\* The model outputs of that turn: every text of at most MaxRawLen atoms, and
\* the samples.
TurnRaws == SeqsUpTo(Alphabet, MaxRawLen) \cup RawSamples

NextTurn == TurnStep(TurnRaws)

SpecTurn == InitTurn /\ [][NextTurn]_vars

\* ---- the extraction step alone, over fenced blocks of every short content

\* What surrounds the block: nothing, or a line before and a line after.
Pads == {<<NoText, NoText>>, <<<<"X", LF>>, <<LF, "X">>>>}

FencedRaws ==
    {p[1] \o Marker \o body \o Marker \o p[2] :
        body \in SeqsUpTo(Alphabet, MaxBody), p \in Pads}

ExtractRaws == FencedRaws \cup TurnRaws

\* That turn after its SQL generation call returned raw.
InitExtract ==
    /\ messages = AnsweredTurns(MaxOps - 2) \o <<UserEntry(<<"Q">>)>>
    /\ current_db_name = 1
    /\ db_loaded = "true"
    /\ db_file = <<"X", ".bak">>
    /\ bak_dir = {1}
    /\ server_dbs = {1}
    /\ with_tables = {1}
    /\ open_conns = 0
    /\ unique_ids = 1
    /\ uploads = 1
    /\ ui = <<"toast", "restored">>
    /\ pc = "extract"
    /\ history_messages = messages
    /\ schema_text = <<"SCHEMA">>
    /\ user_question = <<"Q">>
    /\ raw \in ExtractRaws
    /\ sql = NoText
    /\ columns = <<>>
    /\ rows = <<>>
    /\ result_payload = NoPayload
    /\ reason = NoText
    /\ response = NoText
    /\ outcome = "none"
    /\ log = <<"connect", "catalog", "catalog", "close", "llm_generate">>
    /\ failures = <<>>
    /\ turns = MaxOps - 1
    /\ InitRag
    /\ InitIndex

NextExtract == Extract

SpecExtract == InitExtract /\ [][NextExtract]_vars

\* ---- the ingestion of documents: any sequence of the two callbacks

\* The names a callback is handed: one the list holds, the next new "ok"
\* sources, and a source of each other kind.
KnownSources == IF rag_sources = <<>> THEN {} ELSE {rag_sources[1]}

NewSources == {<<"ok", OkCount(rag_sources) + k>> : k \in 1..MaxBatch}

Files ==
    KnownSources \cup NewSources
        \cup {<<"empty", 0>>, <<"unsupported", 0>>, <<"corrupt", 0>>,
              <<"unwritable", 0>>}

Urls ==
    {NoUrl} \cup KnownSources \cup {<<"ok", OkCount(rag_sources) + 1>>}
        \cup {<<"empty", 0>>, <<"corrupt", 0>>}

\* The uploads: new sources are numbered in the order of the upload.
InOrder(rag_docs) ==
    \A i \in 1..Len(rag_docs), k \in 2..MaxBatch :
        rag_docs[i] = <<"ok", OkCount(rag_sources) + k>> =>
            \E j \in 1..(i - 1) : rag_docs[j] = <<"ok", OkCount(rag_sources) + k - 1>>

Uploads == {rag_docs \in SeqsUpTo(Files, MaxBatch) : InOrder(rag_docs)}

NextRag ==
    \/ \E rag_docs \in Uploads, o \in SplitOutcomes :
         load_doc_to_db(rag_docs, o)
    \/ \E url \in Urls, o \in SplitOutcomes : load_url_to_db(url, o)

SpecRag == Init /\ [][NextRag]_vars

\* ---- the collections: other sessions build their indexes

\* The collections of k sessions that built their indexes a second ago.
OldCollections(k) ==
    {CollectionName([sec |-> 0, frac |-> <<0, 0, i \div 10, i % 10>>,
                     more |-> TRUE], i) : i \in 1..k}

\* The process holds no collection, or as many as it keeps, or one less.
InitCollections ==
    /\ InitApp
    /\ InitRag
    /\ collections \in {OldCollections(k) :
                          k \in {0, MAX_COLLECTIONS - 1, MAX_COLLECTIONS}}
    /\ clock = [sec |-> 0, frac |-> <<0, 0, 2, 0>>, more |-> TRUE]
    /\ last_created = NoName
    /\ last_evicted = <<>>
    /\ other_loads = 0

NextCollections == \E t \in Readings : OtherSessionLoads(t)

SpecCollections == InitCollections /\ [][NextCollections]_vars

\* ------------------------------------------------------------- the claims

Last(s) == s[Len(s)]

\* The last call the turn made, "none" before its first.
LastCall == IF log = <<>> THEN "none" ELSE Last(log)

InLog(call) == \E i \in 1..Len(log) : log[i] = call

FailedIn(steps) == \E i \in 1..Len(failures) : failures[i] \in steps

ModelCalls == {"llm_generate", "llm_explain", "llm_fallback"}

NoModelCall == \A i \in 1..Len(log) : log[i] \notin ModelCalls

\* The calls of the turn after its SQL generation call.
AfterGeneration ==
    LET g == CHOOSE i \in 1..Len(log) : log[i] = "llm_generate" IN
    SubSeq(log, g + 1, Len(log))

\* run_sql_query was called: it connects first.
QueryCalled ==
    InLog("llm_generate")
        /\ \E i \in 1..Len(AfterGeneration) : AfterGeneration[i] = "connect"

\* What fallback_normal_answer can return.
FallbackAnswers == {<<"ANSWER">>, DEFAULT_ANSWER}

\* The turn ended with the answer of fallback_normal_answer as its response.
AnsweredByFallback ==
    /\ outcome = "yielded"
    /\ LastCall = "llm_fallback"
    /\ response \in FallbackAnswers

\* The turn ended with an unhandled error and no response.
EndedUnhandled == outcome = "raised" /\ response = NoText

\* ---- C1

\* C1: a call of stream_db_response with no database current makes no model
\* call and no database call, and its response is the fixed no-database
\* message.
C1_NoDatabaseTurn ==
    (pc # "idle" /\ ~has_db) =>
        /\ pc \in {"start", "returned"}
        /\ log = <<>>
        /\ pc = "returned" => (outcome = "yielded" /\ response = MSG_NO_DB)

C1_Witness ==
    /\ pc = "returned"
    /\ ~has_db
    /\ outcome = "yielded"
    /\ response = MSG_NO_DB
    /\ log = <<>>

\* ---- C2

\* C2: after a failure of the SQL generation call, of the extraction (empty
\* statement), of the execution or of the explanation call, the turn ends with
\* the fallback answer as its response. It is stated for the turns whose
\* fallback call itself returns.
C2_FailureFallsBack ==
    (/\ pc = "returned"
     /\ FailedIn({"generate", "extract", "execute", "explain"})
     /\ ~FailedIn({"fallback"}))
        => AnsweredByFallback

\* ---- C3

\* One opening and one closing marker: the marker occurs twice, apart.
SingleFenced(r) ==
    /\ Cardinality(MarkerPlaces(r)) = 2
    /\ Max(MarkerPlaces(r)) - Min(MarkerPlaces(r)) >= 3

\* The text between the two markers.
Between(r) == SubSeq(r, Min(MarkerPlaces(r)) + 4, Max(MarkerPlaces(r)))

\* t without the whitespace at its ends.
Trim(t) ==
    LET solid == {i \in 1..Len(t) : t[i] \notin Whitespace} IN
    IF solid = {} THEN <<>> ELSE SubSeq(t, Min(solid), Max(solid))

FirstLine(t) ==
    IF FirstBreak(t) = 0 THEN t ELSE SubSeq(t, 1, FirstBreak(t) - 1)

\* t after its first line and the break that ends it.
AfterFirstLine(t) ==
    IF FirstBreak(t) = 0 THEN <<>>
    ELSE SubSeq(t, FirstBreak(t) + BreakLen(t, FirstBreak(t)), Len(t))

\* A line holding a language tag and nothing else, in any case.
IsBareTag(line) == Lower(Trim(line)) \in {<<"sql">>, <<"tsql">>}

\* t with each of its line breaks ("\r\n", "\r", "\n") written "\n".
RECURSIVE NormaliseBreaks(_)
NormaliseBreaks(t) ==
    IF t = <<>> THEN <<>>
    ELSE IF Head(t) = CR
    THEN <<LF>> \o NormaliseBreaks(IF Len(t) > 1 /\ t[2] = LF
                                   THEN Tail(Tail(t))
                                   ELSE Tail(t))
    ELSE <<Head(t)>> \o NormaliseBreaks(Tail(t))

\* t, or t without its first line when that line is a bare tag, trimmed.
WithoutTagLine(t) ==
    IF IsBareTag(FirstLine(t)) THEN Trim(AfterFirstLine(t)) ELSE t

\* The same, the line breaks of what is left written "\n".
WithoutTagLineNormalised(t) ==
    IF IsBareTag(FirstLine(t))
    THEN Trim(NormaliseBreaks(AfterFirstLine(t)))
    ELSE t

Extracted ==
    /\ InLog("llm_generate")
    /\ ~FailedIn({"generate"})
    /\ pc # "extract"

\* The turn took the fallback path and made no call of run_sql_query.
FellBackWithoutQuery ==
    /\ pc \in {"fallback", "returned"}
    /\ ~QueryCalled
    /\ ~InLog("llm_explain")
    /\ pc = "returned" => LastCall = "llm_fallback"

C5_ExplainPayload ==
    InLog("llm_explain") =>
        LET n == Len(rows)
            k == IF n < max_rows_for_llm THEN n ELSE max_rows_for_llm
        IN /\ Len(result_payload.rows_sample) = k
           /\ \A i \in 1..k : result_payload.rows_sample[i] = rows[i]
           /\ result_payload.total_rows = n

C5_Witness ==
    /\ InLog("llm_explain")
    /\ Len(rows) > max_rows_for_llm
    /\ Len(result_payload.rows_sample) = max_rows_for_llm
    /\ result_payload.total_rows = Len(rows)

\* ---- C6

\* C6: after every call of load_doc_to_db and of load_url_to_db the source list
\* holds at most DB_DOCS_LIMIT entries, no entry twice; a call that begins with
\* a full list and is handed a source the list does not hold shows the error
\* of the limit and leaves the source list and the vector index as they were.
C6_SourceLimit ==
    [][/\ Len(rag_sources') <= DB_DOCS_LIMIT
       /\ Cardinality(Range(rag_sources')) = Len(rag_sources')
       /\ (Len(rag_sources) = DB_DOCS_LIMIT /\ rag_offered' > 0) =>
             /\ ERROR_LIMIT \in rag_ui'
             /\ UNCHANGED <<rag_sources, vector_db>>]_vars

C6_Witness ==
    /\ Len(rag_sources) = DB_DOCS_LIMIT
    /\ Cardinality(Range(rag_sources)) = DB_DOCS_LIMIT
    /\ rag_offered = 1
    /\ ERROR_LIMIT \in rag_ui
    /\ vector_db.exists

\* ---- C7

\* C7: the step of a turn that yields a response appends one assistant entry
\* holding that response to the turn history, and no other step of the turn
\* changes the history; the entry of the fallback path is the fallback answer,
\* not the statement, the model output or the reason of the fallback.
C7_OneAssistantEntry ==
    [][IF outcome = "none" /\ outcome' = "yielded"
       THEN /\ messages' = Append(messages, AssistantEntry(response'))
            /\ pc = "fallback" =>
                  /\ response' \in FallbackAnswers
                  /\ response' \notin {sql, raw, reason}
       ELSE pc # "idle" => messages' = messages]_vars

C7_Witness ==
    /\ pc = "returned"
    /\ outcome = "yielded"
    /\ LastCall = "llm_fallback"
    /\ reason # NoText
    /\ Len(messages) >= 2
    /\ messages[Len(messages) - 1].role = "user"
    /\ Last(messages) = AssistantEntry(response)

\* ---- C8

\* A call of load_db_generic with a file that is no .bak.
UnsupportedUpload == uploads' = uploads + 1 /\ ~EndsWithBak(db_file')

\* C8 as stated: the error is shown, no file is written, no database call is
\* made and every session variable keeps its value.
C8_Original ==
    [][UnsupportedUpload =>
          /\ ui' = <<"error", "unsupported file type">>
          /\ UNCHANGED <<bak_dir, unique_ids, server_dbs, with_tables, open_conns>>
          /\ UNCHANGED <<messages, current_db_name, db_loaded>>]_vars

\* C8, amended: ... and every session variable keeps its value except
\* db_loaded, which is set to False.
C8_UnsupportedUpload ==
    [][UnsupportedUpload =>
          /\ ui' = <<"error", "unsupported file type">>
          /\ UNCHANGED <<bak_dir, unique_ids, server_dbs, with_tables, open_conns>>
          /\ UNCHANGED <<messages, current_db_name>>
          /\ db_loaded' = "false"]_vars

C8_Witness ==
    /\ ui = <<"error", "unsupported file type">>
    /\ ~EndsWithBak(db_file)
    /\ has_db
    /\ db_loaded = "false"
    /\ bak_dir = {1}

\* ---- C9

\* The failures of a restore attempt: a short manifest or a server error.
RestoreFailures ==
    {"connect_error", "filelist_error", "short_manifest", "restore_error"}

\* A call of load_db_generic whose restore attempt fails.
FailedRestore ==
    /\ uploads' = uploads + 1
    /\ \E o \in RestoreFailures : ui' = <<"error", "restoring", o>>

\* C9 as stated: after a failed restore attempt no database is current.
C9_Original == [][FailedRestore => current_db_name' = 0]_vars

\* C9, amended: a failed restore attempt shows its error, sets db_loaded to
\* False and leaves the current database as it was: unset when no restore
\* succeeded before in the session, the database of the last successful restore
\* otherwise.
C9_FailedRestore ==
    [][FailedRestore =>
          /\ UNCHANGED <<current_db_name, server_dbs>>
          /\ db_loaded' = "false"
          /\ current_db_name' = IF server_dbs = {} THEN 0 ELSE Max(server_dbs)]_vars

C9_Witness ==
    /\ Len(ui) = 3
    /\ ui[3] \in RestoreFailures
    /\ has_db
    /\ db_loaded = "false"

\* ---- C10

\* C10: when the catalog of the current database lists no base table the
\* schema summary is a sentinel, and on a sentinel the turn ends with the fixed
\* empty-database message, no model call and no SQL execution.
C10_EmptyDatabase ==
    /\ (/\ pc \notin {"idle", "start", "schema"}
        /\ has_db
        /\ current_db_name \notin with_tables
        /\ ~FailedIn({"schema"}))
          => schema_text = <<"NO_TABLES">>
    /\ schema_text \in {<<"NO_DB">>, <<"NO_TABLES">>} =>
          /\ pc = "returned"
          /\ outcome = "yielded"
          /\ response = MSG_EMPTY_DB
          /\ NoModelCall
          /\ ~InLog("execute")

C10_Witness ==
    /\ pc = "returned"
    /\ has_db
    /\ current_db_name \notin with_tables
    /\ schema_text = <<"NO_TABLES">>
    /\ response = MSG_EMPTY_DB

\* ---- C11

\* How often the turn made a call.
Count(call) == Cardinality({i \in 1..Len(log) : log[i] = call})

\* Where in the log the turn made a call first.
Position(call) == CHOOSE i \in 1..Len(log) : log[i] = call

\* C11: in one turn the statement is executed at most once and only after the
\* extraction gave a non-empty statement; the explanation call is made only
\* after that execution succeeded; the turn never makes both the fallback call
\* and the explanation call, so it makes at most two model calls.
C11_StepOrder ==
    /\ Count("execute") <= 1
    /\ InLog("execute") =>
          /\ sql # NoText
          /\ ~FailedIn({"generate", "extract"})
          /\ InLog("llm_generate")
          /\ Position("llm_generate") < Position("execute")
    /\ InLog("llm_explain") =>
          /\ InLog("execute")
          /\ ~FailedIn({"execute"})
          /\ Position("execute") < Position("llm_explain")
    /\ ~(InLog("llm_explain") /\ InLog("llm_fallback"))
    /\ Count("llm_generate") + Count("llm_explain") + Count("llm_fallback") <= 2

C11_Witness ==
    /\ pc = "returned"
    /\ outcome = "yielded"
    /\ sql # NoText
    /\ Count("llm_generate") = 1
    /\ Count("execute") = 1
    /\ Count("llm_explain") = 1
    /\ LastCall = "llm_explain"

\* ---- C12

\* C12: when the model call of the fallback path raises in a turn app.py
\* started, the error leaves stream_db_response: nothing is yielded, no
\* assistant entry is appended and the turn history still ends with the
\* question app.py appended.
C12_FallbackErrorPropagates ==
    FailedIn({"fallback"}) =>
        /\ pc = "returned"
        /\ outcome = "raised"
        /\ response = NoText
        /\ LastCall = "llm_fallback"
        /\ messages = history_messages
        /\ Last(messages) = UserEntry(user_question)

C12_Witness ==
    /\ pc = "returned"
    /\ failures = <<"execute", "fallback">>
    /\ outcome = "raised"
    /\ response = NoText
    /\ Last(messages) = UserEntry(<<"Q">>)

\* ---- C13

\* C13: every connection restore_database_from_bak, get_schema_summary and
\* run_sql_query open is closed when the operation returns or raises: no
\* connection is open between operations.
C13_ConnectionsClosed == open_conns = 0

\* ---- C14

\* C14: after every call of initialize_vector_db at most MAX_COLLECTIONS
\* collections are live; the call deletes collections only down to that
\* number, each the first in the sorted order of the names then live, and
\* never the collection it created.
C14_CollectionCap ==
    /\ Cardinality(collections) <= MAX_COLLECTIONS
    /\ last_evicted # <<>> => Cardinality(collections) = MAX_COLLECTIONS
    /\ \A i \in 1..Len(last_evicted) :
          \A n \in collections \cup {last_evicted[j] : j \in (i + 1)..Len(last_evicted)} :
              LexLess(last_evicted[i], n)
    /\ last_created # NoName =>
          /\ last_created \in collections
          /\ last_created \notin Range(last_evicted)

\* A collection was deleted, and the new name is not the last in the order.
C14_Witness ==
    /\ last_evicted # <<>>
    /\ Cardinality(collections) = MAX_COLLECTIONS
    /\ last_created \in collections
    /\ \E n \in collections : LexLess(last_created, n)

\* ---- C15

\* C15: once a restore has succeeded a database stays current for the rest of
\* the session: no step clears current_db_name, and the only step that changes
\* it is a later successful restore, which sets it to the name that restore
\* generated.
C15_DatabaseStaysCurrent ==
    [][has_db =>
          /\ current_db_name' # 0
          /\ current_db_name' # current_db_name =>
                /\ uploads' = uploads + 1
                /\ unique_ids' = unique_ids + 1
                /\ current_db_name' = unique_ids'
                /\ current_db_name' \in server_dbs' \ server_dbs
                /\ db_loaded' = "true"
                /\ ui' = <<"toast", "restored">>]_vars

\* A restore succeeded, an upload failed, a later restore succeeded.
C15_Witness ==
    /\ current_db_name = 3
    /\ server_dbs = {1, 3}
    /\ bak_dir = {1, 2, 3}
    /\ db_loaded = "true"

====
